---- MODULE Spec2Model ----
(***************************************************************************)
(* Model of makesnapshots.py (aws-snapshot-tool): the per-volume workflow  *)
(* create -> copy -> classify -> sort -> delete with cascade, the volume   *)
(* boundary try/except/else, and the final report with SNS publishing.     *)
(* The provider (EC2 in two regions, SNS) is the environment: every call   *)
(* made inside the volume loop either returns or raises.                   *)
(***************************************************************************)
EXTENDS Integers, Sequences, FiniteSets, TLC

\* ---------------------------------------------------------------- bounds
NumVols == 3        \* volumes returned by get_all_volumes
MaxKeep == 2        \* keep-counts are drawn from 0..MaxKeep
MaxFaults == 1      \* provider calls that raise during one run
MaxTagValues == 2   \* tag values are drawn from 1..MaxTagValues

\* ------------------------------------------------------------ characters
\* Descriptions are sequences of characters so that startswith is computed.
Chars(s) ==
  CASE s = "day" -> <<"d", "a", "y">>
    [] s = "week" -> <<"w", "e", "e", "k">>
    [] s = "month" -> <<"m", "o", "n", "t", "h">>
    [] s = "daily" -> <<"d", "a", "i", "l", "y">>
    [] s = "manual" -> <<"m", "a", "n", "u", "a", "l">>
    [] s = "_snapshot" -> <<"_", "s", "n", "a", "p", "s", "h", "o", "t">>
    [] s = "_extra text" -> <<"_", "e", "x", "t", "r", "a", " ", "t", "e", "x", "t">>
    [] s = " vol" -> <<" ", "v", "o", "l">>

\* startswith that compares the first character only
StartsWithFirstChar(s, p) ==
  /\ Len(s) >= 1
  /\ Len(p) >= 1
  /\ s[1] = p[1]

\* str.startswith (lines 229-233)
StartsWith(s, p) ==
  /\ Len(s) >= Len(p)
  /\ SubSeq(s, 1, Len(p)) = p

Periods == {"day", "week", "month"}
Argvs == {"none", "day", "week", "month", "year"}

\* the description built for a new snapshot (lines 174-179), cut after the
\* volume id: '<period>_snapshot <vol_id>...'
Description(p) == Chars(p) \o Chars("_snapshot") \o Chars(" vol")

\* ------------------------------------------------- the provider at start
Vols == 1..NumVols

\* start time of the snapshot created for volume v in this run: later than
\* every snapshot that exists when the run starts
NowTime(v) == 10 + v
NewSnapId(v) == 100 + v
NewCopyId(n) == 200 + n

Snap(id, d, t) == [id |-> id, description |-> d, start_time |-> t]

\* what vol.snapshots() lists before the run, in provider order (not sorted)
PriorListing(v) ==
  CASE v % 3 = 1 ->
         << Snap(11, Description("day"), 2),
            Snap(12, Description("day"), 1),
            Snap(13, Description("week"), 1),
            Snap(14, Description("day"), 2),
            Snap(15, Chars("daily") \o Chars("_snapshot"), 0),
            Snap(16, Description("month"), 3) >>
    [] v % 3 = 2 ->
         << Snap(21, Description("week"), 3),
            Snap(22, Description("week"), 1),
            Snap(23, Chars("day") \o Chars("_snapshot") \o Chars("_extra text"), 2),
            Snap(24, Description("month"), 2),
            Snap(25, Description("month"), 1) >>
    [] OTHER ->
         << Snap(30 + v, Chars("manual"), 1) >>

\* snapshots of the destination region before the run; src is the value of
\* the source_snapshot_id tag, 0 when the snapshot carries no such tag
Copy(id, src) == [id |-> id, src |-> src]
PriorCopies ==
  { Copy(51, 12), Copy(52, 12), Copy(53, 14), Copy(54, 22), Copy(55, 25),
    Copy(56, 11), Copy(57, 0) }

VARIABLES
  argv,              \* sys.argv[1], "none" when missing
  period,            \* line 43/46/49
  keep_cfg,          \* config keep_day / keep_week / keep_month
  copy_region_name,  \* TRUE when config has a copy region (line 95)
  sns_arn,           \* TRUE when config has a topic (line 92)
  pc,                \* position in the script
  vi,                \* index of vol in vols
  snaps,             \* source region: volume -> listing of its snapshots
  copies,            \* destination region: set of snapshots
  current_snap,      \* 0 while the name is unbound, else the snapshot id
  snap_status,       \* status attribute of the object current_snap names
  copied_snap,       \* id returned by copy_snapshot
  dest_conn,         \* TRUE once the name dest_conn is bound (line 203)
  deletelist, delta, i, copied_vols,
  count_total, count_success, count_errors,
  total_creates, total_copies, total_deletes,
  errmsg,            \* volume ids appended at line 277
  published,         \* subjects passed to sns.publish, in order
  reports,           \* times lines 282-295 ran
  faults,            \* provider calls that raised so far
  \* ---- history of the run, read only by the properties
  fault_log,         \* set of <<volume, call>> that raised
  candidates,        \* volume -> deletelist before the sort, <<>> if not listed
  listed,            \* volumes whose deletion step was reached (line 252 done)
  deleted,           \* volume -> ids deleted in the source region, in order
  dest_deleted,      \* snapshots deleted in the destination region
  failed,            \* volumes that went through the outer except
  succeeded,         \* volumes that went through the else clause
  copy_requests,     \* SourceSnapshotId of every copy_snapshot call, in order
  copy_log,          \* set of <<volume, SourceSnapshotId>> of the copy_snapshot calls
  observed,          \* snapshot ids whose status line 197 found 'completed'
  \* ---- what the process did to the outside before and after the check
  usage_printed,     \* a usage message was printed (line 39 or 52)
  log_written,       \* an entry was written to the log file
  provider_called,   \* a call to STS, EC2 or SNS was made
  \* ---- set_resource_tags (lines 154-162) called on its own
  t_pc,              \* "off", "ready", "loop" or "raised"
  t_tags,            \* the argument tags
  t_resource,        \* resource.tags
  t_todo,            \* keys of tags.items() not yet visited by this call
  t_call,            \* number of calls started on the resource
  t_log              \* the iterations made: call, key, value, value before, add_tag issued

vars == << argv, period, keep_cfg, copy_region_name, sns_arn, pc, vi, snaps,
           copies, current_snap, snap_status, copied_snap, dest_conn,
           deletelist, delta, i, copied_vols, count_total, count_success,
           count_errors, total_creates, total_copies, total_deletes, errmsg,
           published, reports, faults, fault_log, candidates, listed, deleted,
           dest_deleted, failed, succeeded, copy_requests, copy_log, observed,
           usage_printed, log_written, provider_called, t_pc, t_tags,
           t_resource, t_todo, t_call, t_log >>

\* keep_day, keep_week, keep_month are three different numbers of 0..MaxKeep
\* (when MaxKeep >= 2), rotated by base
PeriodIndex(p) == CASE p = "day" -> 0 [] p = "week" -> 1 [] p = "month" -> 2
KeepConfig(base) == [p \in Periods |-> (base + PeriodIndex(p)) % (MaxKeep + 1)]

\* the module-level state of the script before line 38
ScriptInit ==
  /\ argv \in Argvs
  /\ period = "unset"
  /\ \E base \in 0..MaxKeep : keep_cfg = KeepConfig(base)
  /\ copy_region_name \in BOOLEAN
  /\ sns_arn \in BOOLEAN
  /\ pc = "argcheck"
  /\ vi = 0
  /\ snaps = [v \in Vols |-> PriorListing(v)]
  /\ copies = PriorCopies
  /\ current_snap = 0
  /\ snap_status = "none"
  /\ copied_snap = 0
  /\ dest_conn = FALSE
  /\ deletelist = <<>>
  /\ delta = 0
  /\ i = 0
  /\ copied_vols = {}
  /\ count_total = 0 /\ count_success = 0 /\ count_errors = 0
  /\ total_creates = 0 /\ total_copies = 0 /\ total_deletes = 0
  /\ errmsg = <<>>
  /\ published = <<>>
  /\ reports = 0
  /\ faults = 0
  /\ fault_log = {}
  /\ candidates = [v \in Vols |-> <<>>]
  /\ listed = {}
  /\ deleted = [v \in Vols |-> <<>>]
  /\ dest_deleted = {}
  /\ failed = {}
  /\ succeeded = {}
  /\ copy_requests = <<>>
  /\ copy_log = {}
  /\ observed = {}
  /\ usage_printed = FALSE
  /\ log_written = FALSE
  /\ provider_called = FALSE

\* tag maps: the keys present and their values
TagKeys == {"Name", "env"}
TagValues == 1..MaxTagValues
TagMaps == UNION {[K -> TagValues] : K \in SUBSET TagKeys}

\* set_resource_tags is not being looked at on its own
TagOff ==
  /\ t_pc = "off"
  /\ t_tags = <<>>
  /\ t_resource = <<>>
  /\ t_todo = {}
  /\ t_call = 0
  /\ t_log = {}

Init == ScriptInit /\ TagOff

\* ------------------------------------------------------ pure computations
PeriodPrefix(p) == Chars(p) \o Chars("_snapshot")

\* lines 229-236 without the `and period == ...` tests
IsCandidateAnyPeriod(sndesc, p) ==
  \/ StartsWith(sndesc, PeriodPrefix("week"))
  \/ StartsWith(sndesc, PeriodPrefix("day"))
  \/ StartsWith(sndesc, PeriodPrefix("month"))

\* the if/elif chain of lines 229-236: TRUE when snap is appended
IsCandidate(sndesc, p) ==
  IF StartsWith(sndesc, PeriodPrefix("week")) /\ p = "week" THEN TRUE
  ELSE IF StartsWith(sndesc, PeriodPrefix("day")) /\ p = "day" THEN TRUE
  ELSE IF StartsWith(sndesc, PeriodPrefix("month")) /\ p = "month" THEN TRUE
  ELSE FALSE

\* lines 226-236: deletelist in listing order
Classify(snapshots, p) ==
  SelectSeq(snapshots, LAMBDA snap : IsCandidate(snap.description, p))

\* line 242-243
date_compare(snapshot) == snapshot.start_time

\* line 245 with reverse=True: newest first
InsertByKeyDescending(x, s) ==
  LET k == Cardinality({j \in 1..Len(s) : date_compare(s[j]) >= date_compare(x)})
  IN  SubSeq(s, 1, k) \o <<x>> \o SubSeq(s, k + 1, Len(s))

\* list.sort(key=date_compare), line 245: a stable sort, computed by
\* inserting the elements left to right, each after the elements whose key
\* is not greater
InsertByKey(x, s) ==
  LET k == Cardinality({j \in 1..Len(s) : date_compare(s[j]) <= date_compare(x)})
  IN  SubSeq(s, 1, k) \o <<x>> \o SubSeq(s, k + 1, Len(s))

RECURSIVE SortPrefix(_, _)
SortPrefix(list, n) ==
  IF n = 0 THEN <<>> ELSE InsertByKey(list[n], SortPrefix(list, n - 1))

\* line 245 left out: the list stays in listing order
SortKeepsListingOrder(list) == list

SortByStartTime(list) == SortPrefix(list, Len(list))

\* lines 246-251
Keep(p) ==
  CASE p = "day" -> keep_cfg["day"]
    [] p = "week" -> keep_cfg["week"]
    [] p = "month" -> keep_cfg["month"]

\* line 252 without the keep-count
DeltaIgnoresKeep(n, keep) == n

\* line 252
Delta(n, keep) == n - keep

\* snapshot.update(): the status the provider reports next
NextStatus(s) ==
  IF s = "pending" THEN {"pending", "completed", "error"} ELSE {s}

\* the listing without the snapshot id
RemoveSnap(list, id) == SelectSeq(list, LAMBDA snap : snap.id # id)

\* describe_snapshots with the tag filter of lines 259-267
CopiesOf(id) == {c \in copies : c.src = id}

\* ------------------------------------------------------------ frame sets
config == << argv, period, keep_cfg, copy_region_name, sns_arn >>
provider == << snaps, copies >>
names == << current_snap, snap_status, copied_snap, dest_conn >>
loopv == << deletelist, delta, i, copied_vols >>
counters == << count_total, count_success, count_errors, total_creates,
               total_copies, total_deletes, errmsg >>
out == << published, reports >>
hist == << candidates, listed, deleted, dest_deleted, failed, succeeded,
           copy_requests >>

tagv == << t_pc, t_tags, t_resource, t_todo, t_call, t_log >>
trace == << copy_log, observed >>
io == << usage_printed, log_written, provider_called >>

\* a provider call returns
Returns == UNCHANGED << faults, fault_log >>

\* a provider call raises
Raises(call) ==
  /\ faults < MaxFaults
  /\ faults' = faults + 1
  /\ fault_log' = fault_log \cup {<<vi, call>>}

\* ------------------------------------------------------------- pre-flight
\* lines 38-53 without the quit() calls: the message is printed and the
\* script goes on as a day run
ArgCheckFallsThrough ==
  /\ pc = "argcheck"
  /\ IF argv \in Periods
       THEN period' = argv /\ usage_printed' = FALSE
       ELSE period' = "day" /\ usage_printed' = TRUE
  /\ pc' = "list_volumes"
  /\ UNCHANGED << tagv, argv, keep_cfg, copy_region_name, sns_arn, vi, provider,
                  names, loopv, counters, out, hist, faults, fault_log, trace,
                  log_written, provider_called >>

\* lines 38-53
ArgCheck ==
  /\ pc = "argcheck"
  /\ IF argv \in Periods
       THEN period' = argv /\ pc' = "list_volumes" /\ usage_printed' = FALSE
       ELSE period' = period /\ pc' = "quit" /\ usage_printed' = TRUE
  /\ UNCHANGED << tagv, argv, keep_cfg, copy_region_name, sns_arn, vi, provider,
                  names, loopv, counters, out, hist, faults, fault_log, trace,
                  log_written, provider_called >>

\* lines 55-167: logging.basicConfig and the first log entry (69-75), role
\* assumption (79-85), the EC2 and SNS connections (107-140) and
\* conn.get_all_volumes (167)
ListVolumes ==
  /\ pc = "list_volumes"
  /\ pc' = "loop"
  /\ log_written' = TRUE
  /\ provider_called' = TRUE
  /\ UNCHANGED << tagv, config, usage_printed, trace, vi, provider, names, loopv, counters, out, hist,
                  faults, fault_log >>

\* ------------------------------------------------------------ volume loop
\* lines 169-172: the next vol, count_total += 1
LoopNext ==
  /\ pc = "loop"
  /\ vi < NumVols
  /\ vi' = vi + 1
  /\ count_total' = count_total + 1
  /\ pc' = "get_tags"
  /\ UNCHANGED << tagv, config, io, trace, provider, names, loopv, count_success, count_errors,
                  total_creates, total_copies, total_deletes, errmsg, out,
                  hist, faults, fault_log >>

\* line 169: vols is exhausted
LoopExit ==
  /\ pc = "loop"
  /\ vi = NumVols
  /\ pc' = "report"
  /\ UNCHANGED << tagv, config, io, trace, vi, provider, names, loopv, counters, out, hist,
                  faults, fault_log >>

\* line 173, get_resource_tags (143-151)
GetResourceTags ==
  /\ pc = "get_tags"
  /\ \/ Returns /\ pc' = "create"
     \/ Raises("get_all_tags") /\ pc' = "except"
  /\ UNCHANGED << tagv, config, io, trace, vi, provider, names, loopv, counters, out, hist >>

\* lines 180-181 and the except of 187-190
CreateSnapshot ==
  /\ pc = "create"
  /\ \/ /\ Returns
        /\ current_snap' = NewSnapId(vi)
        /\ snap_status' \in {"pending", "completed"}
        /\ snaps' = [snaps EXCEPT ![vi] =
                       <<Snap(NewSnapId(vi), Description(period), NowTime(vi))>> \o @]
        /\ pc' = "set_tags"
     \/ /\ Raises("create_snapshot")
        /\ UNCHANGED << current_snap, snap_status, snaps >>
        /\ pc' = "copy_gate"
  /\ UNCHANGED << tagv, config, io, trace, vi, copies, copied_snap, dest_conn, loopv, counters,
                  out, hist >>

\* lines 182-186 and the except of 187-190
SetResourceTags ==
  /\ pc = "set_tags"
  /\ \/ Returns /\ total_creates' = total_creates + 1
     \/ Raises("add_tag") /\ total_creates' = total_creates
  /\ pc' = "copy_gate"
  /\ UNCHANGED << tagv, config, io, trace, vi, provider, names, loopv, count_total,
                  count_success, count_errors, total_copies, total_deletes,
                  errmsg, out, hist >>

\* line 193
CopyGate ==
  /\ pc = "copy_gate"
  /\ pc' = IF copy_region_name THEN "poll_check" ELSE "list_snaps"
  /\ UNCHANGED << tagv, config, io, trace, vi, provider, names, loopv, counters, out, hist,
                  faults, fault_log >>

\* lines 196-198 without the status test: the loop is left at once
PollCheckSkipsWait ==
  /\ pc = "poll_check"
  /\ pc' = IF current_snap = 0 THEN "list_snaps" ELSE "copy"
  /\ observed' = IF current_snap # 0 /\ snap_status = "completed"
                   THEN observed \cup {current_snap} ELSE observed
  /\ UNCHANGED << tagv, config, io, copy_log, vi, provider, names, loopv, counters,
                  out, hist, faults, fault_log >>

\* lines 196-198; reading the unbound name current_snap raises NameError,
\* caught at 220-223
PollCheck ==
  /\ pc = "poll_check"
  /\ pc' = IF current_snap = 0 THEN "list_snaps"
           ELSE IF snap_status = "completed" THEN "copy"
           ELSE "poll_sleep"
  /\ observed' = IF current_snap # 0 /\ snap_status = "completed"
                   THEN observed \cup {current_snap} ELSE observed
  /\ UNCHANGED << tagv, config, io, copy_log, vi, provider, names, loopv, counters, out, hist,
                  faults, fault_log >>

\* lines 199-201
PollUpdate ==
  /\ pc = "poll_sleep"
  /\ \/ /\ Returns
        /\ snap_status' \in NextStatus(snap_status)
        /\ pc' = "poll_check"
     \/ /\ Raises("update")
        /\ snap_status' = snap_status
        /\ pc' = "list_snaps"
  /\ UNCHANGED << tagv, config, io, trace, vi, provider, current_snap, copied_snap, dest_conn,
                  loopv, counters, out, hist >>

\* lines 203-211
CopySnapshot ==
  /\ pc = "copy"
  /\ dest_conn' = TRUE
  /\ copy_requests' = Append(copy_requests, current_snap)
  /\ copy_log' = copy_log \cup {<<vi, current_snap>>}
  /\ \/ /\ Returns
        /\ copied_snap' = NewCopyId(vi)
        /\ copies' = copies \cup {Copy(NewCopyId(vi), 0)}
        /\ pc' = "tag_copy"
     \/ /\ Raises("copy_snapshot")
        /\ UNCHANGED << copied_snap, copies >>
        /\ pc' = "list_snaps"
  /\ UNCHANGED << tagv, config, io, observed, vi, snaps, current_snap, snap_status, loopv,
                  counters, out, candidates, listed, deleted, dest_deleted,
                  failed, succeeded >>

\* lines 212-219
CreateTags ==
  /\ pc = "tag_copy"
  /\ \/ /\ Returns
        /\ copies' = (copies \ {Copy(copied_snap, 0)})
                        \cup {Copy(copied_snap, current_snap)}
        /\ total_copies' = total_copies + 1
     \/ /\ Raises("create_tags")
        /\ UNCHANGED << copies, total_copies >>
  /\ pc' = "list_snaps"
  /\ UNCHANGED << tagv, config, io, trace, vi, snaps, names, loopv, count_total, count_success,
                  count_errors, total_creates, total_deletes, errmsg, out,
                  hist >>

\* lines 225-252: vol.snapshots(), classification, sort, keep, delta
ListSnapshots ==
  /\ pc = "list_snaps"
  /\ \/ /\ Returns
        /\ LET classified == Classify(snaps[vi], period)
           IN  /\ deletelist' = SortByStartTime(classified)
               /\ delta' = Delta(Len(classified), Keep(period))
               /\ candidates' = [candidates EXCEPT ![vi] = classified]
        /\ i' = 0
        /\ listed' = listed \cup {vi}
        /\ pc' = "del_loop"
     \/ /\ Raises("snapshots")
        /\ UNCHANGED << deletelist, delta, i, candidates, listed >>
        /\ pc' = "except"
  /\ UNCHANGED << tagv, config, io, trace, vi, provider, names, copied_vols, counters, out,
                  deleted, dest_deleted, failed, succeeded, copy_requests >>

\* lines 253-256: range(delta) yields i, deletelist[i].delete()
DeleteSnapshot ==
  /\ pc = "del_loop"
  /\ i < delta
  /\ \/ /\ Returns
        /\ snaps' = [snaps EXCEPT ![vi] = RemoveSnap(@, deletelist[i + 1].id)]
        /\ deleted' = [deleted EXCEPT ![vi] = Append(@, deletelist[i + 1].id)]
        /\ pc' = "dest_check"
     \/ /\ Raises("delete")
        /\ UNCHANGED << snaps, deleted >>
        /\ pc' = "except"
  /\ UNCHANGED << tagv, config, io, trace, vi, copies, names, loopv, counters, out, candidates,
                  listed, dest_deleted, failed, succeeded, copy_requests >>

\* line 257: reading the unbound name dest_conn raises NameError, which
\* only the except of line 273 catches
DestCheck ==
  /\ pc = "dest_check"
  /\ pc' = IF dest_conn THEN "describe" ELSE "except"
  /\ UNCHANGED << tagv, config, io, trace, vi, provider, names, loopv, counters, out, hist,
                  faults, fault_log >>

\* lines 258-267
DescribeSnapshots ==
  /\ pc = "describe"
  /\ \/ /\ Returns
        /\ copied_vols' = {c.id : c \in CopiesOf(deletelist[i + 1].id)}
        /\ pc' = "del_copies"
     \/ /\ Raises("describe_snapshots")
        /\ copied_vols' = copied_vols
        /\ pc' = "except"
  /\ UNCHANGED << tagv, config, io, trace, vi, provider, names, deletelist, delta, i, counters,
                  out, hist >>

\* lines 268-270: one iteration over copied_vols['Snapshots']
DeleteCopy ==
  /\ pc = "del_copies"
  /\ \E c \in copied_vols :
       \/ /\ Returns
          /\ copies' = {x \in copies : x.id # c}
          /\ dest_deleted' = dest_deleted \cup {x \in copies : x.id = c}
          /\ copied_vols' = copied_vols \ {c}
          /\ pc' = "del_copies"
       \/ /\ Raises("delete_snapshot")
          /\ UNCHANGED << copies, dest_deleted, copied_vols >>
          /\ pc' = "except"
  /\ UNCHANGED << tagv, config, io, trace, vi, snaps, names, deletelist, delta, i, counters,
                  out, candidates, listed, deleted, failed, succeeded,
                  copy_requests >>

\* line 271, after the copies of deletelist[i] are gone
CountDelete ==
  /\ pc = "del_copies"
  /\ copied_vols = {}
  /\ total_deletes' = total_deletes + 1
  /\ i' = i + 1
  /\ pc' = "del_loop"
  /\ UNCHANGED << tagv, config, io, trace, vi, provider, names, deletelist, delta, copied_vols,
                  count_total, count_success, count_errors, total_creates,
                  total_copies, errmsg, out, hist, faults, fault_log >>

\* lines 253, 272 and the else clause of 279-280
VolumeElse ==
  /\ pc = "del_loop"
  /\ i >= delta
  /\ count_success' = count_success + 1
  /\ succeeded' = succeeded \cup {vi}
  /\ pc' = "loop"
  /\ UNCHANGED << tagv, config, io, trace, vi, provider, names, loopv, count_total,
                  count_errors, total_creates, total_copies, total_deletes,
                  errmsg, out, candidates, listed, deleted, dest_deleted,
                  failed, copy_requests, faults, fault_log >>

\* lines 273-278 with the exception leaving the loop after it is counted
VolumeExceptPropagates ==
  /\ pc = "except"
  /\ errmsg' = Append(errmsg, vi)
  /\ count_errors' = count_errors + 1
  /\ failed' = failed \cup {vi}
  /\ pc' = "report"
  /\ UNCHANGED << tagv, config, io, trace, vi, provider, names, loopv, count_total,
                  count_success, total_creates, total_copies, total_deletes,
                  out, candidates, listed, deleted, dest_deleted, succeeded,
                  copy_requests, faults, fault_log >>

\* lines 273-280 with count_success += 1 after the try statement instead of
\* in its else clause
VolumeExceptFallsThrough ==
  /\ pc = "except"
  /\ errmsg' = Append(errmsg, vi)
  /\ count_errors' = count_errors + 1
  /\ count_success' = count_success + 1
  /\ failed' = failed \cup {vi}
  /\ pc' = "loop"
  /\ UNCHANGED << tagv, config, io, trace, vi, provider, names, loopv, count_total,
                  total_creates, total_copies, total_deletes,
                  out, candidates, listed, deleted, dest_deleted, succeeded,
                  copy_requests, faults, fault_log >>

\* lines 273-278
VolumeExcept ==
  /\ pc = "except"
  /\ errmsg' = Append(errmsg, vi)
  /\ count_errors' = count_errors + 1
  /\ failed' = failed \cup {vi}
  /\ pc' = "loop"
  /\ UNCHANGED << tagv, config, io, trace, vi, provider, names, loopv, count_total,
                  count_success, total_creates, total_copies, total_deletes,
                  out, candidates, listed, deleted, dest_deleted, succeeded,
                  copy_requests, faults, fault_log >>

\* ------------------------------------------------------------ final report
\* lines 282-295
Report ==
  /\ pc = "report"
  /\ reports' = reports + 1
  /\ pc' = "sns"
  /\ UNCHANGED << tagv, config, io, trace, vi, provider, names, loopv, counters, published,
                  hist, faults, fault_log >>

\* lines 298-300
PublishError ==
  /\ pc = "sns"
  /\ IF sns_arn
       THEN /\ published' = IF errmsg # <<>>
                               THEN Append(published, "Error with AWS Snapshot")
                               ELSE published
            /\ pc' = "sns_summary"
       ELSE /\ published' = published
            /\ pc' = "log_result"
  /\ UNCHANGED << tagv, config, io, trace, vi, provider, names, loopv, counters, reports, hist,
                  faults, fault_log >>

\* line 301
PublishSummary ==
  /\ pc = "sns_summary"
  /\ published' = Append(published, "Finished AWS snapshotting")
  /\ pc' = "log_result"
  /\ UNCHANGED << tagv, config, io, trace, vi, provider, names, loopv, counters, reports, hist,
                  faults, fault_log >>

\* line 303
LogResult ==
  /\ pc = "log_result"
  /\ pc' = "done"
  /\ UNCHANGED << tagv, config, io, trace, vi, provider, names, loopv, counters, out, hist,
                  faults, fault_log >>

Next ==
  \/ ArgCheck
  \/ ListVolumes
  \/ LoopNext
  \/ LoopExit
  \/ GetResourceTags
  \/ CreateSnapshot
  \/ SetResourceTags
  \/ CopyGate
  \/ PollCheck
  \/ PollUpdate
  \/ CopySnapshot
  \/ CreateTags
  \/ ListSnapshots
  \/ DeleteSnapshot
  \/ DestCheck
  \/ DescribeSnapshots
  \/ DeleteCopy
  \/ CountDelete
  \/ VolumeElse
  \/ VolumeExcept
  \/ Report
  \/ PublishError
  \/ PublishSummary
  \/ LogResult

Spec == Init /\ [][Next]_vars

\* the script is one sequential process: it always takes its next step
FairSpec == Init /\ [][Next]_vars /\ WF_vars(Next)

\* ------------------------------------------- set_resource_tags on its own
\* line 156 with the test left out
NeedsTagAlways(resource_tags, tag_key, tag_value) == TRUE

\* line 156: the right operand of `or` is read only when the key is present
NeedsTag(resource_tags, tag_key, tag_value) ==
  IF tag_key \notin DOMAIN resource_tags
  THEN TRUE
  ELSE resource_tags[tag_key] # tag_value

\* line 162: resource.add_tag sets the tag at the provider and in
\* resource.tags
AddTag(resource_tags, tag_key, tag_value) ==
  [k \in DOMAIN resource_tags \cup {tag_key} |->
     IF k = tag_key THEN tag_value ELSE resource_tags[k]]

\* the value of the key in resource.tags, 0 when the key is absent
ValueBefore(resource_tags, tag_key) ==
  IF tag_key \in DOMAIN resource_tags THEN resource_tags[tag_key] ELSE 0

script == << config, io, trace, pc, vi, provider, names, loopv, counters, out,
            hist, faults, fault_log >>

\* a resource with any tags, any tag map, the script not started
TagInit ==
  /\ ScriptInit
  /\ argv = "none"
  /\ keep_cfg = KeepConfig(0)
  /\ ~copy_region_name
  /\ ~sns_arn
  /\ t_pc = "ready"
  /\ t_tags \in TagMaps
  /\ t_resource \in TagMaps
  /\ t_todo = {}
  /\ t_call = 0
  /\ t_log = {}

\* lines 154-155: set_resource_tags(resource, tags) is called
TagCallStart ==
  /\ t_pc = "ready"
  /\ t_call < 2
  /\ t_call' = t_call + 1
  /\ t_todo' = DOMAIN t_tags
  /\ t_pc' = "loop"
  /\ UNCHANGED << script, t_tags, t_resource, t_log >>

\* lines 155-162: one iteration of the for loop; add_tag returns or raises
TagIterate ==
  /\ t_pc = "loop"
  /\ \E tag_key \in t_todo :
       LET tag_value == t_tags[tag_key]
           need == NeedsTag(t_resource, tag_key, tag_value)
           entry == [call |-> t_call, key |-> tag_key, value |-> tag_value,
                     before |-> ValueBefore(t_resource, tag_key),
                     issued |-> need]
       IN  /\ t_log' = t_log \cup {entry}
           /\ \/ /\ t_resource' = IF need
                                    THEN AddTag(t_resource, tag_key, tag_value)
                                    ELSE t_resource
                 /\ t_todo' = t_todo \ {tag_key}
                 /\ t_pc' = "loop"
              \/ /\ need
                 /\ UNCHANGED << t_resource, t_todo >>
                 /\ t_pc' = "raised"
  /\ UNCHANGED << script, t_tags, t_call >>

\* line 155: tags.items() is exhausted, the call returns
TagCallReturn ==
  /\ t_pc = "loop"
  /\ t_todo = {}
  /\ t_pc' = "ready"
  /\ UNCHANGED << script, t_tags, t_resource, t_todo, t_call, t_log >>

TagNext ==
  \/ TagCallStart
  \/ TagIterate
  \/ TagCallReturn

\* set_resource_tags called twice on one resource with one tag map
TagSpec == TagInit /\ [][TagNext]_vars

\* ------------------------------------------------------------- vocabulary
Max0(x) == IF x > 0 THEN x ELSE 0
Min(a, b) == IF a < b THEN a ELSE b
Range(f) == {f[j] : j \in DOMAIN f}

\* n, k and max(0, n-k) of a volume whose snapshots were listed
NumCandidates(v) == Len(candidates[v])
ActiveKeep == keep_cfg[period]
Excess(v) == Max0(NumCandidates(v) - ActiveKeep)

\* the processing of volume v is over
Ended(v) == v \in failed \cup succeeded

\* ids deleted in the source region by this run
DeletedIds == UNION {Range(deleted[v]) : v \in Vols}

RECURSIVE SumDeleted(_)
SumDeleted(n) == IF n = 0 THEN 0 ELSE Len(deleted[n]) + SumDeleted(n - 1)

\* calls of the deletion step (lines 256-270), of the copy step (196-215)
DeletionCalls == {"delete", "describe_snapshots", "delete_snapshot"}
CascadeCalls == {"describe_snapshots", "delete_snapshot"}
CopyCalls == {"update", "copy_snapshot", "create_tags"}

\* position of the snapshot id in a listing
IndexOf(list, id) == CHOOSE j \in 1..Len(list) : list[j].id = id

AfterLoop == pc \in {"report", "sns", "sns_summary", "log_result", "done"}

\* p is a prefix of s, character by character
HasPrefix(s, p) ==
  /\ Len(p) <= Len(s)
  /\ \A j \in 1..Len(p) : s[j] = p[j]

\* the text '<period>_snapshot' of the period of this run
PrefixOf == [p \in Periods |-> Chars(p) \o Chars("_snapshot")]
ActivePrefix == PrefixOf[period]

\* every snapshot volume v has at some time of the run
UniverseOf ==
  [v \in Vols |-> [p \in Periods |->
     Range(PriorListing(v)) \cup {Snap(NewSnapId(v), Description(p), NowTime(v))}]]
UniverseSnaps(v) == UniverseOf[v][period]

\* the snapshots of v, listed in a run of period p, whose description starts
\* with '<q>_snapshot'
WithPrefix ==
  [v \in Vols |-> [p \in Periods |-> [q \in Periods |->
     {s \in UniverseOf[v][p] : HasPrefix(s.description, PrefixOf[q])}]]]

\* in a run of period p no description starts with two of the prefixes
SinglePrefix ==
  [p \in Periods |->
     \A v \in Vols : \A s \in UniverseOf[v][p] :
       Cardinality({q \in Periods : s \in WithPrefix[v][p][q]}) <= 1]

\* the snapshots of v that a run of period p may select
ActiveSnaps(v) == WithPrefix[v][period][period]

\* the snapshot created for v in this run exists or existed
Created(v) ==
  \/ \E s \in Range(snaps[v]) : s.id = NewSnapId(v)
  \/ NewSnapId(v) \in Range(deleted[v])

\* the snapshots vol.snapshots() returned for a listed volume: nothing is
\* created after the listing, so these are the ones left plus the ones deleted
SnapsAtListing(v) ==
  Range(snaps[v]) \cup {s \in UniverseSnaps(v) : s.id \in Range(deleted[v])}

\* ----------------------------------------------------------------- claims

\* C1 (as stated): a volume that reached the deletion step, whose processing
\* is over and none of whose deletion-step calls was rejected, has exactly
\* max(0, n-k) snapshots deleted, with or without a copy region.
C1_ExactlyExcessDeleted ==
  \A v \in Vols :
    ( /\ v \in listed
      /\ Ended(v)
      /\ \A call \in DeletionCalls : <<v, call>> \notin fault_log )
    => Len(deleted[v]) = Excess(v)

\* C2: in every state the run has deleted at most max(0, n-k) snapshots of
\* a volume, all of them candidates listed in this run, nothing for a volume
\* not listed or with n <= k, and at least min(n, k) of the candidates are
\* still at the provider.
C2_AtMostExcessDeleted ==
  \A v \in Vols :
    IF v \in listed
    THEN /\ Len(deleted[v]) <= Excess(v)
         /\ Cardinality(Range(deleted[v])) = Len(deleted[v])
         /\ Range(deleted[v]) \subseteq {c.id : c \in Range(candidates[v])}
         /\ (NumCandidates(v) <= ActiveKeep => deleted[v] = <<>>)
         /\ Cardinality({c \in Range(candidates[v]) :
                           \E s \in Range(snaps[v]) : s.id = c.id})
              >= Min(NumCandidates(v), ActiveKeep)
    ELSE deleted[v] = <<>>

\* C2 witness: one volume is done with all of two or more excess snapshots
\* deleted while another volume with 1 <= n <= k lost nothing.
C2_Witness ==
  \E v, w \in listed :
    /\ Ended(v) /\ Ended(w)
    /\ Excess(v) >= 2 /\ Len(deleted[v]) = Excess(v)
    /\ NumCandidates(w) >= 1 /\ NumCandidates(w) <= ActiveKeep
    /\ deleted[w] = <<>>

\* C3: once the current volume's snapshots are listed, deletelist is the
\* candidate list in ascending start-time order with ties in listing order,
\* the number selected is max(0, n-k) for the keep-count of the active
\* period, the snapshots deleted so far are the first ones of deletelist,
\* and no selected snapshot is younger than a retained candidate.
C3_OldestExcessSelected ==
  vi \in listed =>
    LET n == Len(deletelist)
        sel == Max0(delta)
    IN  /\ n = NumCandidates(vi)
        /\ Range(deletelist) = Range(candidates[vi])
        /\ sel = Max0(n - keep_cfg[period])
        /\ sel <= n
        /\ \A a, b \in 1..n :
             a < b =>
               /\ deletelist[a].start_time <= deletelist[b].start_time
               /\ deletelist[a].start_time = deletelist[b].start_time
                    => IndexOf(candidates[vi], deletelist[a].id)
                         < IndexOf(candidates[vi], deletelist[b].id)
        /\ \A a \in 1..sel : \A b \in (sel + 1)..n :
             deletelist[a].start_time <= deletelist[b].start_time
        /\ Len(deleted[vi]) <= sel
        /\ \A j \in 1..Len(deleted[vi]) : deleted[vi][j] = deletelist[j].id

\* C3 witness: the listing was not in time order, two candidates with the
\* same start time ended on different sides of the cut, and the two
\* selected snapshots are deleted.
C3_Witness ==
  /\ vi \in listed
  /\ deletelist # candidates[vi]
  /\ Max0(delta) = 2
  /\ Len(deleted[vi]) = 2
  /\ Len(deletelist) >= 3
  /\ deletelist[2].start_time = deletelist[3].start_time

\* C4: an exception never leaves the volume loop: once the loop is over
\* every listed volume was counted and has ended as failed or succeeded;
\* each failed volume is counted once in count_errors and its id is once in
\* the error buffer; every call whose exception reaches the volume boundary
\* makes its volume failed.
C4_FailuresStayInLoop ==
  /\ AfterLoop => /\ count_total = NumVols
                  /\ failed \cup succeeded = Vols
  /\ count_errors = Cardinality(failed)
  /\ Len(errmsg) = count_errors
  /\ Range(errmsg) = failed
  /\ failed \cap succeeded = {}
  /\ \A f \in fault_log :
       (f[2] \in {"get_all_tags", "snapshots"} \cup DeletionCalls
          /\ (f[1] < vi \/ AfterLoop))
       => f[1] \in failed

\* C4 witness: the first volume failed on a rejected call, a later one
\* failed too, and the run still counted every volume and finished.
C4_Witness ==
  /\ pc = "done"
  /\ count_total = NumVols
  /\ 1 \in failed
  /\ count_errors = 2
  /\ \E call \in {"get_all_tags", "snapshots"} : <<1, call>> \in fault_log
  /\ succeeded # {}

\* C5 (as stated): three volumes, create_snapshot raises for exactly one of
\* them, nothing else fails and no other volume is failed: the report shows
\* 2 succeeded, 1 errored and total_creates = 2.
C5_CreateFailureIsCountedAsError ==
  ( /\ pc = "done"
    /\ NumVols = 3
    /\ \E v \in Vols : /\ fault_log = {<<v, "create_snapshot">>}
                       /\ failed \subseteq {v} )
  => /\ count_success = 2
     /\ count_errors = 1
     /\ total_creates = 2

\* C6 (as stated, on the runs where the provider rejects no call of the
\* deletion step nor any call whose exception reaches the volume boundary):
\* with a copy region, at the end of the run a destination snapshot is
\* deleted if and only if its source_snapshot_id tag names a snapshot this
\* run deleted.
C6_CopyDeletedIffSourceDeleted ==
  ( /\ pc = "done"
    /\ copy_region_name
    /\ \A f \in fault_log : f[2] \in {"create_snapshot", "add_tag"} \cup CopyCalls )
  => /\ \A c \in dest_deleted : c.src \in DeletedIds
     /\ \A c \in copies : c.src \notin DeletedIds

\* C7 (as stated): when the only rejected call of the run is a cascade call
\* (describe_snapshots or delete_snapshot) made for volume v, v does not end
\* failed, every deletion done is counted in total_deletes, and all excess
\* snapshots of v are deleted.
C7_CascadeFailureCaughtAtStep ==
  \A v \in Vols :
    ( /\ Ended(v)
      /\ \E call \in CascadeCalls : fault_log = {<<v, call>>} )
    => /\ v \in succeeded
       /\ count_errors = 0
       /\ Len(deleted[v]) = Excess(v)
       /\ (pc = "loop" => total_deletes = SumDeleted(NumVols))

\* C8 (as stated): with a copy region, when the only rejected call of the
\* run is a call of the copy step of volume v (update, copy_snapshot or
\* create_tags), v is not failed and its classification and deletion run to
\* the end, deleting all max(0, n-k) excess snapshots, for every v.
C8_CopyFailureDoesNotFailVolume ==
  \A v \in Vols :
    ( /\ copy_region_name
      /\ Ended(v)
      /\ \E call \in CopyCalls : fault_log = {<<v, call>>} )
    => /\ v \in succeeded
       /\ v \in listed
       /\ Len(deleted[v]) = Excess(v)

\* C9 (as stated): every run that passed the argument check reaches the end
\* of the script with the final report produced exactly once.
C9_RunTerminatesWithReport ==
  /\ (pc = "list_volumes") ~> (pc = "done" /\ reports = 1)
  /\ [](reports <= 1)

\* the counting and ordering of C10, in every state: at most one alert and
\* one summary, nothing without a topic, the summary only after the loop
\* and the report, the alert only before the summary and only when a volume
\* failed, and at the end of the script the alert is there if and only if a
\* volume failed and the summary is there if a topic is configured
PublishSafety ==
  LET alerts == {j \in 1..Len(published) : published[j] = "Error with AWS Snapshot"}
      summaries == {j \in 1..Len(published) : published[j] = "Finished AWS snapshotting"}
  IN  /\ Len(published) <= 2
      /\ Cardinality(alerts) <= 1 /\ Cardinality(summaries) <= 1
      /\ (~sns_arn => published = <<>>)
      /\ (published # <<>> => AfterLoop /\ reports = 1 /\ failed \cup succeeded = Vols)
      /\ (alerts # {} => 1 \in alerts /\ failed # {})
      /\ (pc \in {"log_result", "done"} /\ sns_arn =>
            /\ Cardinality(summaries) = 1
            /\ (alerts # {} <=> failed # {}))

\* C10 (as stated): with a topic configured every run publishes the final
\* summary, exactly once, the alert if and only if a volume failed, and
\* never more than two messages.
C10_SummaryPublishedInEveryRun ==
  /\ (pc = "list_volumes" /\ sns_arn)
       ~> ( /\ published # <<>>
            /\ published[Len(published)] = "Finished AWS snapshotting"
            /\ (Len(published) = 2 <=> failed # {}) )
  /\ [](Len(published) <= 2)

\* C11: a run with active period p deletes only source snapshots whose
\* description starts with '<p>_snapshot'; every snapshot of another period
\* or of no known prefix that existed before the run is still there.
C11_OtherPeriodsUntouched ==
  IF period \in Periods
  THEN \A v \in Vols :
         /\ \A id \in Range(deleted[v]) :
              \E s \in ActiveSnaps(v) : s.id = id
         /\ \A s \in UniverseSnaps(v) \ ActiveSnaps(v) : s \in Range(snaps[v])
  ELSE \A v \in Vols : deleted[v] = <<>> /\ snaps[v] = PriorListing(v)

\* C11 witness: the run is over, it deleted snapshots of two volumes, one
\* volume failed, and snapshots of the other periods are still listed.
C11_Witness ==
  /\ pc = "done"
  /\ period = "week"
  /\ deleted[1] # <<>> /\ deleted[2] # <<>>
  /\ failed # {}
  /\ \E s \in Range(snaps[1]) : HasPrefix(s.description, Chars("day") \o Chars("_snapshot"))
  /\ \E s \in Range(snaps[2]) : HasPrefix(s.description, Chars("month") \o Chars("_snapshot"))

\* C12: with a keep-count of at least 1 for the active period the snapshot
\* created for a volume in this run is never deleted by this run; when it is
\* listed it is a candidate and no candidate has a later start time.
C12_NewSnapshotSurvives ==
  period \in Periods =>
    \A v \in Vols :
      /\ ActiveKeep >= 1 => NewSnapId(v) \notin Range(deleted[v])
      /\ (v \in listed /\ Created(v)) =>
           /\ \E c \in Range(candidates[v]) : c.id = NewSnapId(v)
           /\ \A c \in Range(candidates[v]) : c.start_time <= NowTime(v)

\* C12 witness: keep-count 1, a snapshot was created for the volume, the
\* three older candidates were deleted and the new one is the one left.
C12_Witness ==
  /\ period \in Periods
  /\ ActiveKeep = 1
  /\ \E v \in succeeded :
       /\ NumCandidates(v) = 4
       /\ Len(deleted[v]) = 3
       /\ \E s \in Range(snaps[v]) : s.id = NewSnapId(v)

\* C15: the candidates of a listed volume are exactly the listed snapshots
\* whose description starts with '<activePeriod>_snapshot'; with period day
\* 'day_snapshot_extra text' is a candidate and 'daily_snapshot' is not; no
\* description starts with more than one of the three prefixes.
C15_ExactPrefixClassification ==
  /\ \A v \in listed :
       {c.id : c \in Range(candidates[v])}
         = {s.id : s \in SnapsAtListing(v) \cap ActiveSnaps(v)}
  /\ (2 \in listed /\ period = "day") =>
       \E c \in Range(candidates[2]) :
         c.description = Chars("day") \o Chars("_snapshot") \o Chars("_extra text")
  /\ (1 \in listed) =>
       \A c \in Range(candidates[1]) :
         c.description # Chars("daily") \o Chars("_snapshot")
  /\ period \in Periods => SinglePrefix[period]

\* C15 witness: a day run has listed the first two volumes: 'daily_snapshot'
\* was listed for the first and skipped, 'day_snapshot_extra text' is a
\* candidate of the second.
C15_Witness ==
  /\ period = "day"
  /\ {1, 2} \subseteq listed
  /\ \E s \in SnapsAtListing(1) : s.description = Chars("daily") \o Chars("_snapshot")
  /\ \E c \in Range(candidates[2]) : c.id = 23

\* C13: when the argument is missing or is not day, week or month, the script
\* prints the usage message and stops: no log entry is written, no provider
\* call is made and nothing of the run's state changes.
C13_UsageBeforeAnyCall ==
  argv \notin Periods =>
    /\ pc \in {"argcheck", "quit"}
    /\ (pc = "quit" => usage_printed)
    /\ ~log_written
    /\ ~provider_called
    /\ count_total = 0
    /\ published = <<>>
    /\ reports = 0
    /\ snaps = [v \in Vols |-> PriorListing(v)]
    /\ copies = PriorCopies

\* C13 witness: the script was started with 'year' and has stopped.
C13_Witness ==
  /\ argv = "year"
  /\ pc = "quit"
  /\ usage_printed
  /\ ~log_written
  /\ ~provider_called

\* one step of the script keeps the order of lines 196-211
PollAndCopyOrder ==
  /\ (pc' = "copy") => /\ pc = "poll_check"
                       /\ snap_status = "completed"
                       /\ current_snap \in observed'
  /\ (pc' = "poll_check") => pc \in {"copy_gate", "poll_sleep"}
  /\ (pc = "poll_check" /\ current_snap # 0 /\ snap_status # "completed")
       => pc' = "poll_sleep"
  /\ (copy_requests' # copy_requests)
       => /\ pc = "copy"
          /\ copy_requests' = Append(copy_requests, current_snap)
          /\ current_snap \in observed

\* the copies made and tagged in this run against their copy requests
CopyTagsMatchRequests ==
  /\ \A r \in copy_log : r[2] \in observed
  /\ \A c \in copies \cup dest_deleted :
       (c \notin PriorCopies /\ c.src # 0)
         => \E r \in copy_log : c.id = NewCopyId(r[1]) /\ c.src = r[2]

\* C16: copy_snapshot is called only for a snapshot whose status line 197
\* found 'completed'; a status check that does not find it is followed by
\* the sleep and update of lines 199-200, and the next check comes only
\* after them; every tagged copy made in this run carries source_snapshot_id
\* equal to the SourceSnapshotId of its copy request.
C16_CopyAfterCompletedAndTagged ==
  /\ [][PollAndCopyOrder]_vars
  /\ []CopyTagsMatchRequests

\* C16 witness: the copy of the first volume's snapshot is tagged with its
\* id, and the script is in the wait between two status checks of the
\* second volume's snapshot, which is pending.
C16_Witness ==
  /\ Copy(NewCopyId(1), NewSnapId(1)) \in copies
  /\ vi = 2
  /\ pc = "poll_sleep"
  /\ current_snap = NewSnapId(2)
  /\ snap_status = "pending"

\* C17 (as stated, on the runs where set_resource_tags does not raise):
\* every copy_snapshot call is for the snapshot created for the volume being
\* processed, no snapshot is copied twice, and total_copies <= total_creates
\* in every state.
C17_CopyOnlyOwnNewSnapshot ==
  (\A f \in fault_log : f[2] # "add_tag") =>
    /\ \A r \in copy_log : r[2] = NewSnapId(r[1]) /\ Created(r[1])
    /\ Cardinality(Range(copy_requests)) = Len(copy_requests)
    /\ total_copies <= total_creates

\* C18 (as stated, on the runs where the provider rejects no call): once the
\* final report is produced, total_deletes is the number of source-region
\* snapshots the run deleted at the provider.
C18_TotalDeletesIsExact ==
  (reports >= 1 /\ faults = 0) => total_deletes = SumDeleted(NumVols)

\* C19: between two volumes and from the end of the loop on,
\* count_total = count_success + count_errors, and the volumes processed
\* so far are split into the succeeded and the failed ones.
C19_EveryVolumeCountedOnce ==
  /\ (pc = "loop" \/ AfterLoop) =>
       /\ count_total = count_success + count_errors
       /\ failed \cup succeeded = 1..vi
       /\ count_total = vi
  /\ count_success = Cardinality(succeeded)
  /\ count_errors = Cardinality(failed)
  /\ failed \cap succeeded = {}
  /\ count_success + count_errors <= count_total
  /\ count_total <= count_success + count_errors + 1

\* C19 witness: the report of a run in which volumes failed and succeeded.
C19_Witness ==
  /\ pc = "done"
  /\ reports = 1
  /\ count_errors >= 1
  /\ count_success >= 1
  /\ count_total = NumVols

\* C14: an iteration of set_resource_tags issues add_tag exactly when the key
\* was absent from resource.tags or had another value; after a call that
\* returned the resource carries every tag of the map; a second call on the
\* same resource with the same map issues no add_tag.
C14_TagsSetOnlyWhenNeededAndIdempotent ==
  /\ \A e \in t_log : e.issued <=> (e.before = 0 \/ e.before # e.value)
  /\ (t_call >= 1 /\ t_pc = "ready") =>
       \A k \in DOMAIN t_tags :
         k \in DOMAIN t_resource /\ t_resource[k] = t_tags[k]
  /\ \A e \in t_log : e.call = 2 => ~e.issued

\* C14 witness: the first call added an absent key and replaced a differing
\* value, the second call visited both keys and has returned.
C14_Witness ==
  /\ t_call = 2
  /\ t_pc = "ready"
  /\ \E e \in t_log : e.call = 1 /\ e.issued /\ e.before = 0
  /\ \E e \in t_log : e.call = 1 /\ e.issued /\ e.before # 0
  /\ Cardinality({e \in t_log : e.call = 2}) = 2

====
